---- MODULE Spec2Model ----
(***************************************************************************)
(* Vectored HTTP range read of davix (src/src/fileops/httpiovec.cpp):      *)
(* HttpIOVecOps::preadVec and what it calls.  One call of preadVec is      *)
(* followed from its entry to its return or its exception.  The HTTP       *)
(* collaborator (HttpRequest, the single-range pread of the IO chain) is   *)
(* the environment: it picks the status, the headers and the body of each  *)
(* answer.                                                                 *)
(*                                                                         *)
(* Text is modelled by tokens: a line is a sequence of tokens [t, v], a    *)
(* body is a sequence of items (a line, a byte, or the point where the     *)
(* transport fails).  The resource is ResLen bytes long and its byte at    *)
(* position p has the value p, so that a byte in a buffer tells where it   *)
(* came from.                                                              *)
(***************************************************************************)
EXTENDS Integers, Sequences, FiniteSets, TLC

(***************************************************************************)
(* Bounds of the model.                                                    *)
(***************************************************************************)
\* at most MaxN ranges in one call
MaxN == 3
\* the small range sizes are 0..MaxSize
MaxSize == 2
\* length of the remote resource in bytes
ResLen == 10
\* readBlock delivers 1..MaxBlock bytes at a time
MaxBlock == 3
\* The code packs ranges under a budget of 3900 bytes (line 113).  With at
\* most MaxN short ranges that budget never splits, so the packer is run
\* with scaled budgets: one that splits MaxN ranges and one that does not.
SmallBudget == 7
LargeBudget == 14

(***************************************************************************)
(* Program constants.                                                      *)
(***************************************************************************)
\* if(n_try > 100)
MaxTry == 100
\* req.getAnswerSize() > 1000000
GuardSize == 1000000
\* tokens[0].size() <= 70
MaxBoundaryLen == 70

\* a range size large enough for twice the request to pass GuardSize
BigSize == 600000

Offsets == {0, 1, ResLen - 1}
SmallSizes == 0..MaxSize
\* the first range of a call may be a large one
Sizes == SmallSizes \cup {BigSize}
HeaderBudgets == {SmallBudget, LargeBudget}
\* what getAnswerSize() may report: unknown, values around 1000000, 1 MiB,
\* and values around twice BigSize
AnswerSizes == {-1, 1000000, 1000001, 1048576, 1200000, 1200001}

Min(a, b) == IF a < b THEN a ELSE b
Max(a, b) == IF a > b THEN a ELSE b

RECURSIVE SumSeq(_)
SumSeq(s) == IF s = <<>> THEN 0 ELSE Head(s) + SumSeq(Tail(s))

\* the bytes [a, a+n) of the resource, as far as the resource goes
ResBytes(a, n) == [k \in 1..Max(0, Min(n, ResLen - a)) |-> a + k - 1]

(***************************************************************************)
(* Errors: the DavixError a DavixError** holds, "none" for NULL.           *)
(***************************************************************************)
NoError == "none"

\* DavixError::setupError / propagateError: an error already set is kept
SetupError(cur, new) == IF cur = NoError THEN new ELSE cur

(***************************************************************************)
(* Tokens, lines and body items.                                           *)
(***************************************************************************)
Sym(s) == [t |-> s, v |-> 0]
Num(n) == [t |-> "num", v |-> n]
\* a decimal numeral too large for a long
BigNum == [t |-> "bignum", v |-> 0]
\* a boundary token of the given name and length in bytes
Bnd(name, len) == [t |-> name, v |-> len]

Boundary == Bnd("BOUND", 5)
OtherBoundary == Bnd("OTHER", 5)
\* a boundary one byte longer than line 271 accepts
LongBoundary == Bnd("LONG", MaxBoundaryLen + 1)

LineItem(toks) == [k |-> "line", toks |-> toks, b |-> 0]
ByteItem(x) == [k |-> "byte", toks |-> <<>>, b |-> x]
AbortItem == [k |-> "abort", toks |-> <<>>, b |-> 0]

BlankLine == <<>>
StartLine(bnd) == <<Sym("--"), bnd>>
CloseLine(bnd) == <<Sym("--"), bnd, Sym("--")>>
ContentRangeLine(name, x, y) ==
    <<Sym(name), Sym(":"), Sym(" "), Sym("bytes"), Sym(" "),
      x, Sym("-"), y, Sym("/"), Num(ResLen)>>
ContentTypeLine ==
    <<Sym("Content-Type"), Sym(":"), Sym(" "), Sym("application/octet-stream")>>
RawLine == <<Sym("raw")>>

\* ans_header_byte_range
ans_header_byte_range == "content-range"

\* lower case of the header names the model uses (compare_ncase ignores case)
ToLower(s) ==
    CASE s = "Content-Range" -> "content-range"
      [] s = "CONTENT-RANGE" -> "content-range"
      [] s = "Content-Type" -> "content-type"
      [] OTHER -> s

(***************************************************************************)
(* davIOVecProvider: the next (begin, end) of the input vector, or -1.     *)
(* counter is the 0-based cursor; rc is the value returned.                *)
(***************************************************************************)
\* a variant without the std::max of line 83
davIOVecProvider_NoMax(vec, counter, number) ==
    IF counter < number
    THEN [rc |-> counter + 1,
          begin |-> vec[counter + 1].diov_offset,
          end |-> vec[counter + 1].diov_offset + vec[counter + 1].diov_size - 1,
          counter |-> counter + 1]
    ELSE [rc |-> -1, begin |-> 0, end |-> 0, counter |-> counter]

davIOVecProvider(vec, counter, number) ==
    IF counter < number
    THEN LET begin == vec[counter + 1].diov_offset
         IN [rc |-> counter + 1,
             begin |-> begin,
             end |-> Max(begin + vec[counter + 1].diov_size - 1, begin),
             counter |-> counter + 1]
    ELSE [rc |-> -1, begin |-> 0, end |-> 0, counter |-> counter]

(***************************************************************************)
(* generateRangeHeaders (not in this file): greedy packing of "begin-end"  *)
(* items, comma separated, under a budget of bytes; a header value is      *)
(* kept as the sequence of its <<begin, end>> pairs.                       *)
(***************************************************************************)
RECURSIVE Digits(_)
Digits(n) == IF n < 10 THEN 1 ELSE 1 + Digits(n \div 10)

RECURSIVE HeaderLen(_)
HeaderLen(rs) ==
    IF rs = <<>> THEN 0
    ELSE Digits(Head(rs)[1]) + 1 + Digits(Head(rs)[2])
         + (IF Tail(rs) = <<>> THEN 0 ELSE 1 + HeaderLen(Tail(rs)))

RECURSIVE PackRanges(_, _, _, _, _)
PackRanges(budget, vec, counter, cur, acc) ==
    LET p == davIOVecProvider(vec, counter, Len(vec))
        emit == Append(acc, [first |-> Len(cur), second |-> cur])
    IN IF p.rc < 0
       THEN (IF cur = <<>> THEN acc ELSE emit)
       ELSE LET r == <<p.begin, p.end>>
            IN IF cur = <<>> \/ HeaderLen(Append(cur, r)) <= budget
               THEN PackRanges(budget, vec, p.counter, Append(cur, r), acc)
               ELSE PackRanges(budget, vec, p.counter, <<r>>, emit)

generateRangeHeaders(budget, vec) == PackRanges(budget, vec, 0, <<>>, <<>>)

(***************************************************************************)
(* Boundary extraction from Content-Type.                                  *)
(***************************************************************************)
\* tokenSplit (not in this file): the runs of tokens between delimiters
RECURSIVE DropDelims(_, _)
DropDelims(toks, delims) ==
    IF toks # <<>> /\ Head(toks).t \in delims
    THEN DropDelims(Tail(toks), delims) ELSE toks

RECURSIVE TakeRun(_, _)
TakeRun(toks, delims) ==
    IF toks = <<>> \/ Head(toks).t \in delims THEN <<>>
    ELSE <<Head(toks)>> \o TakeRun(Tail(toks), delims)

RECURSIVE tokenSplit(_, _)
tokenSplit(toks, delims) ==
    LET rest == DropDelims(toks, delims)
        run == TakeRun(rest, delims)
    IN IF rest = <<>> THEN <<>>
       ELSE <<run>> \o tokenSplit(SubSeq(rest, Len(run) + 1, Len(rest)), delims)

\* std::string::find of one token: its index, 0 for npos
RECURSIVE FindToken(_, _, _)
FindToken(toks, name, i) ==
    IF i > Len(toks) THEN 0
    ELSE IF toks[i].t = name THEN i ELSE FindToken(toks, name, i + 1)

RECURSIVE TokensSize(_)
TokensSize(toks) == IF toks = <<>> THEN 0 ELSE Head(toks).v + TokensSize(Tail(toks))

\* rc 0 and the boundary, or rc -1; no error is set on failure
http_extract_boundary_from_content_type(buffer) ==
    LET pos_bound == FindToken(buffer, "boundary=", 1)
        tokens == tokenSplit(SubSeq(buffer, pos_bound + 1, Len(buffer)), {"\"", ";"})
    IN IF pos_bound # 0
          /\ Len(tokens) >= 1
          /\ TokensSize(tokens[1]) > 0
          /\ TokensSize(tokens[1]) <= MaxBoundaryLen
       THEN [rc |-> 0, boundary |-> tokens[1]]
       ELSE [rc |-> -1, boundary |-> <<>>]

\* ctype: [present, value], what getAnswerHeader("Content-Type") gives
get_multi_part_info(ctype) ==
    IF ctype.present /\ http_extract_boundary_from_content_type(ctype.value).rc = 0
    THEN http_extract_boundary_from_content_type(ctype.value)
    ELSE [rc |-> -1, boundary |-> <<>>]

(***************************************************************************)
(* Part header parsing.                                                    *)
(***************************************************************************)
\* header_delimiter: index of the first ':', 0 for NULL
header_delimiter(buffer) == FindToken(buffer, ":", 1)

\* a variant that takes LONG_MAX for a number
StrtolOk_NoOverflowTest(tok) == tok.t \in {"num", "bignum"} /\ tok.v >= 0

\* strtol and the test of line 315 on its result
StrtolOk(tok) == tok.t = "num" /\ tok.v >= 0

\* rc 1 with the part's range, rc 0 for another header, rc -1 otherwise
find_header_params(buffer) ==
    LET p == header_delimiter(buffer)
        tokens == tokenSplit(SubSeq(buffer, p + 1, Len(buffer)),
                             {" ", "bytes", "-", "/", "\t"})
        bad == [rc |-> -1, size |-> 0, offset |-> 0]
    IN IF p = 0 THEN bad
       ELSE IF ~(p = 2 /\ ToLower(buffer[1].t) = ans_header_byte_range)
       THEN [rc |-> 0, size |-> 0, offset |-> 0]
       ELSE IF Len(tokens) < 2 THEN bad
       ELSE IF ~(Len(tokens[1]) = 1 /\ StrtolOk(tokens[1][1])) THEN bad
       ELSE IF ~(Len(tokens[2]) = 1 /\ StrtolOk(tokens[2][1])) THEN bad
       ELSE IF tokens[2][1].v < tokens[1][1].v THEN bad
       ELSE [rc |-> 1,
             size |-> tokens[2][1].v - tokens[1][1].v + 1,
             offset |-> tokens[1][1].v]

\* a variant that compares only as many bytes as the boundary has
is_a_start_boundary_part_Prefix(buffer, boundary) ==
    /\ Len(buffer) >= 1 + Len(boundary)
    /\ buffer[1] = Sym("--")
    /\ SubSeq(buffer, 2, 1 + Len(boundary)) = boundary

\* lines 456-469
is_a_start_boundary_part(buffer, boundary) ==
    /\ Len(buffer) >= 2
    /\ buffer[1] = Sym("--")
    /\ SubSeq(buffer, 2, Len(buffer)) = boundary

\* the leading byte items of a body
RECURSIVE LeadingBytes(_)
LeadingBytes(stream) ==
    IF stream # <<>> /\ Head(stream).k = "byte"
    THEN <<Head(stream).b>> \o LeadingBytes(Tail(stream))
    ELSE <<>>

\* HttpRequest::readLine followed by trim_crlf: ret is -1 on a transport
\* failure, else the length of the trimmed line (0 for an empty line and at
\* the end of the body).  Body bytes met where a line is expected come back
\* as one non-empty line, up to the line end that follows them.
parse_multi_part_header_line(stream) ==
    IF stream = <<>>
    THEN [ret |-> 0, buffer |-> <<>>, rest |-> <<>>, err |-> NoError]
    ELSE IF Head(stream).k = "abort"
    THEN [ret |-> -1, buffer |-> <<>>, rest |-> stream, err |-> "transport"]
    ELSE IF Head(stream).k = "line"
    THEN [ret |-> Len(Head(stream).toks), buffer |-> Head(stream).toks,
          rest |-> Tail(stream), err |-> NoError]
    ELSE LET n == Len(LeadingBytes(stream))
             after == SubSeq(stream, n + 1, Len(stream))
         IN [ret |-> n, buffer |-> RawLine,
             rest |-> IF after # <<>> /\ Head(after) = LineItem(BlankLine)
                      THEN Tail(after) ELSE after,
             err |-> NoError]

ChunkInfo == [offset |-> 0, size |-> 0, bounded |-> FALSE]

\* line 342
TooLong_Never(n_try) == FALSE

TooLong(n_try) == n_try > MaxTry

\* one activation of parse_multi_part_header, up to its return or to the
\* call of itself (done FALSE: stream, info, n_try are that call's
\* arguments); SpecParser takes the activations one by one.  rc is the value returned, err the error it sets (NoError
\* when it sets none), line what readLine gave when it was called.
parse_multi_part_header_once(stream, boundary, info, n_try) ==
    LET l == parse_multi_part_header_line(stream)
        fp == find_header_params(l.buffer)
        read == [read |-> TRUE, ret |-> l.ret, buffer |-> l.buffer]
        fail(e) == [done |-> TRUE, rc |-> -1, info |-> info, stream |-> l.rest,
                    n_try |-> n_try, err |-> e, line |-> read]
        again(i) == [done |-> FALSE, rc |-> 0, info |-> i, stream |-> l.rest,
                     n_try |-> n_try + 1, err |-> NoError, line |-> read]
    IN IF TooLong(n_try)
       THEN [done |-> TRUE, rc |-> -1, info |-> info, stream |-> stream,
             n_try |-> n_try, err |-> "toolong",
             line |-> [read |-> FALSE, ret |-> 0, buffer |-> <<>>]]
       ELSE IF l.ret < 0 THEN fail(l.err)
       ELSE IF ~info.bounded
       THEN IF l.ret = 0
            THEN again(info)
            ELSE IF ~is_a_start_boundary_part(l.buffer, boundary)
            THEN fail("multipart")
            ELSE again([info EXCEPT !.bounded = TRUE])
       ELSE IF info.offset = 0 /\ info.size = 0
       THEN IF fp.rc < 0
            THEN fail(NoError)
            ELSE again(IF fp.rc = 1
                       THEN [info EXCEPT !.offset = fp.offset, !.size = fp.size]
                       ELSE info)
       ELSE IF l.ret = 0
       THEN [done |-> TRUE, rc |-> 0, info |-> info, stream |-> l.rest,
             n_try |-> n_try, err |-> NoError, line |-> read]
       ELSE fail("multipart")

\* parse_multi_part_header: one call with its recursive calls.  rc is the
\* value returned, err the error it sets (NoError when it sets none).
RECURSIVE parse_multi_part_header(_, _, _, _)
parse_multi_part_header(stream, boundary, info, n_try) ==
    LET l == parse_multi_part_header_line(stream)
        fp == find_header_params(l.buffer)
        fail(e) == [rc |-> -1, info |-> info, stream |-> l.rest,
                    n_try |-> n_try, err |-> e]
    IN IF n_try > MaxTry
       THEN [rc |-> -1, info |-> info, stream |-> stream, n_try |-> n_try,
             err |-> "toolong"]
       ELSE IF l.ret < 0 THEN fail(l.err)
       ELSE IF ~info.bounded /\ stream = <<>>
       THEN \* the body is over: each read returns 0 and the call repeats
            \* itself unchanged until n_try exceeds MaxTry
            [rc |-> -1, info |-> info, stream |-> <<>>, n_try |-> MaxTry + 1,
             err |-> "toolong"]
       ELSE IF ~info.bounded
       THEN IF l.ret = 0
            THEN parse_multi_part_header(l.rest, boundary, info, n_try + 1)
            ELSE IF ~is_a_start_boundary_part(l.buffer, boundary)
            THEN fail("multipart")
            ELSE parse_multi_part_header(l.rest, boundary,
                                         [info EXCEPT !.bounded = TRUE], n_try + 1)
       ELSE IF info.offset = 0 /\ info.size = 0
       THEN IF fp.rc < 0
            THEN fail(NoError)
            ELSE parse_multi_part_header(
                     l.rest, boundary,
                     IF fp.rc = 1
                     THEN [info EXCEPT !.offset = fp.offset, !.size = fp.size]
                     ELSE info,
                     n_try + 1)
       ELSE IF l.ret = 0
       THEN [rc |-> 0, info |-> info, stream |-> l.rest, n_try |-> n_try,
             err |-> NoError]
       ELSE fail("multipart")

\* HttpRequest::readSegment: up to n bytes of the body; fewer when the body
\* ends, -1 when the transport fails before n bytes were read
readSegment(stream, n) ==
    LET avail == LeadingBytes(stream)
        got == SubSeq(avail, 1, Min(n, Len(avail)))
        rest == SubSeq(stream, Len(got) + 1, Len(stream))
    IN IF Len(got) < n /\ rest # <<>> /\ Head(rest).k = "abort"
       THEN [ret |-> -1, data |-> got, rest |-> rest, err |-> "transport"]
       ELSE [ret |-> Len(got), data |-> got, rest |-> rest, err |-> NoError]

NoBuffer == 0

\* copyChunk for input number idx (its buffer is buffer idx): the value
\* returned, the output entry, the bytes left in the input's buffer
copyChunk(stream, i, o, idx, mem) ==
    LET s == readSegment(stream, IF i.diov_size = 0 THEN 1 ELSE i.diov_size)
    IN IF i.diov_size = 0
       THEN [ret |-> IF s.ret > 0 THEN 0 ELSE s.ret,
             o |-> IF s.ret > 0
                   THEN [diov_buffer |-> idx, diov_size |-> 0] ELSE o,
             mem |-> mem, rest |-> s.rest, err |-> s.err]
       ELSE [ret |-> s.ret,
             o |-> IF s.ret > 0
                   THEN [diov_buffer |-> idx, diov_size |-> s.ret] ELSE o,
             mem |-> IF s.data = <<>> THEN mem ELSE s.data,
             rest |-> s.rest, err |-> s.err]

(***************************************************************************)
(* The whole-body simulator (status 200).  cmap is the multimap as the     *)
(* sequence of input numbers ordered by offset; an iterator is an index    *)
(* into it, Len(cmap) + 1 for end().                                       *)
(***************************************************************************)
\* multimap::insert: after the entries whose key is not greater
RECURSIVE MapInsert(_, _, _)
MapInsert(m, vec, s) ==
    IF m = <<>> THEN <<s>>
    ELSE IF vec[Head(m)].diov_offset <= vec[s].diov_offset
    THEN <<Head(m)>> \o MapInsert(Tail(m), vec, s)
    ELSE <<s>> \o m

RECURSIVE fill_map_chunk_from(_, _, _)
fill_map_chunk_from(m, vec, s) ==
    IF s > Len(vec) THEN m
    ELSE fill_map_chunk_from(MapInsert(m, vec, s), vec, s + 1)

\* a variant that leaves the first input out of the map
fill_map_chunk_SkipFirst(vec) == fill_map_chunk_from(<<>>, vec, 2)

fill_map_chunk(vec) == fill_map_chunk_from(<<>>, vec, 1)

\* the ElemChunk constructor run on every entry
ElemChunkReset(vec) == [s \in 1..Len(vec) |-> [diov_buffer |-> s, diov_size |-> 0]]

\* a variant that passes an entry as soon as the stream is beyond its offset
RECURSIVE AdvanceStart_IgnoresSize(_, _, _, _)
AdvanceStart_IgnoresSize(m, vec, start, pos) ==
    IF start # Len(m) + 1 /\ pos > vec[m[start]].diov_offset
    THEN AdvanceStart_IgnoresSize(m, vec, start + 1, pos)
    ELSE start

RECURSIVE AdvanceStart(_, _, _, _)
AdvanceStart(m, vec, start, pos) ==
    IF start # Len(m) + 1
       /\ pos > vec[m[start]].diov_offset + vec[m[start]].diov_size
    THEN AdvanceStart(m, vec, start + 1, pos)
    ELSE start

RECURSIVE AdvanceEnd(_, _, _, _)
AdvanceEnd(m, vec, end, end_chunk_pos) ==
    IF end # Len(m) + 1 /\ end_chunk_pos > vec[m[end]].diov_offset
    THEN AdvanceEnd(m, vec, end + 1, end_chunk_pos)
    ELSE end

balance_iterator_windows(m, vec, start, end, pos, read_size) ==
    [start |-> AdvanceStart(m, vec, start, pos),
     end |-> AdvanceEnd(m, vec, end, pos + read_size)]

\* a variant that forgets the bytes the entry already holds
ChunkReadOffset_NoProgress(vec, out, idx, pos) ==
    vec[idx].diov_offset - pos

\* what fill_concerned_chunk_buffer computes for one entry
ChunkReadOffset(vec, out, idx, pos) ==
    vec[idx].diov_offset + out[idx].diov_size - pos

\* a variant that forgets where in the block the entry starts
ChunkNeeded_NoOffset(vec, out, idx, pos, read_size) ==
    Min(vec[idx].diov_size - out[idx].diov_size, read_size)

ChunkNeeded(vec, out, idx, pos, read_size) ==
    Min(vec[idx].diov_size - out[idx].diov_size,
        read_size - ChunkReadOffset(vec, out, idx, pos))

\* a byte read outside the block is not a byte of the resource
OutsideBlock == -1

BlockByte(buffer, i) ==
    IF i >= 1 /\ i <= Len(buffer) THEN buffer[i] ELSE OutsideBlock

\* the loop of fill_concerned_chunk_buffer from iterator it to end: the
\* outputs and the buffers after it
RECURSIVE fill_concerned_chunk_buffer(_, _, _, _, _, _, _, _)
fill_concerned_chunk_buffer(m, vec, out, mem, it, end, buffer, pos) ==
    IF it >= end THEN [out |-> out, mem |-> mem]
    ELSE LET idx == m[it]
             cur_chunk_size == out[idx].diov_size
             read_offset == ChunkReadOffset(vec, out, idx, pos)
             s_needed == ChunkNeeded(vec, out, idx, pos, Len(buffer))
             copied == [k \in 1..s_needed |-> BlockByte(buffer, read_offset + k)]
         IN IF s_needed > 0
            THEN fill_concerned_chunk_buffer(
                     m, vec,
                     [out EXCEPT ![idx].diov_size = cur_chunk_size + s_needed],
                     [mem EXCEPT ![idx] = SubSeq(mem[idx], 1, cur_chunk_size) \o copied],
                     it + 1, end, buffer, pos)
            ELSE fill_concerned_chunk_buffer(m, vec, out, mem, it + 1, end, buffer, pos)

sum_all_chunk_size(out) == SumSeq([s \in 1..Len(out) |-> out[s].diov_size])

(***************************************************************************)
(* Single-range requests through the IO chain.                             *)
(***************************************************************************)
\* _start->pread (not in this file): the bytes of the resource in the range
pread(size, offset) == ResBytes(offset, size)

\* singleRangeRequest on input idx: output entry and buffer after it
singleRangeRequest(vec, out, mem, idx) ==
    LET data == pread(vec[idx].diov_size, vec[idx].diov_offset)
    IN [size |-> Len(data),
        out |-> [out EXCEPT ![idx] = [diov_buffer |-> idx, diov_size |-> Len(data)]],
        mem |-> [mem EXCEPT ![idx] = IF data = <<>> THEN mem[idx] ELSE data]]

RECURSIVE simulateMultirangeFrom(_, _, _, _, _)
simulateMultirangeFrom(vec, out, mem, i, size) ==
    IF i > Len(vec) THEN [size |-> size, out |-> out, mem |-> mem]
    ELSE LET r == singleRangeRequest(vec, out, mem, i)
         IN simulateMultirangeFrom(vec, r.out, r.mem, i + 1, size + r.size)

\* a variant whose loop starts at the second input
simulateMultirange_FromSecond(vec, out, mem) ==
    simulateMultirangeFrom(vec, out, mem, 2, 0)

simulateMultirange(vec, out, mem) == simulateMultirangeFrom(vec, out, mem, 1, 0)

(***************************************************************************)
(* The server.  A header value asks for the ranges hv = <<begin, end>>...; *)
(* a server that follows RFC 7233 answers the ranges that start inside the *)
(* resource, cut at its end, in the order asked.  The other answers depart *)
(* from that in one place: kind names how, j the part, m the bytes sent.   *)
(***************************************************************************)
RECURSIVE ServerParts(_)
ServerParts(hv) ==
    IF hv = <<>> THEN <<>>
    ELSE (IF Head(hv)[1] < ResLen
          THEN << <<Head(hv)[1], Min(Head(hv)[2], ResLen - 1)>> >>
          ELSE <<>>) \o ServerParts(Tail(hv))

DataItems(x, n) == [k \in 1..n |-> ByteItem(x + k - 1)]

\* the lines of one part up to and including the empty line before its data
PartHead(x, y, kind) ==
    CASE kind = "lower" ->
           <<LineItem(StartLine(Boundary)),
             LineItem(ContentRangeLine("content-range", Num(x), Num(y))),
             LineItem(BlankLine)>>
      [] kind = "mismatch" ->
           <<LineItem(StartLine(Boundary)), LineItem(ContentTypeLine),
             LineItem(ContentRangeLine("Content-Range", Num(x + 1), Num(y + 1))),
             LineItem(BlankLine)>>
      [] kind = "nocolon" ->
           <<LineItem(StartLine(Boundary)), LineItem(RawLine),
             LineItem(ContentRangeLine("Content-Range", Num(x), Num(y))),
             LineItem(BlankLine)>>
      [] kind = "badrange" ->
           <<LineItem(StartLine(Boundary)), LineItem(ContentTypeLine),
             LineItem(ContentRangeLine("Content-Range", Sym("abc"), Num(y))),
             LineItem(BlankLine)>>
      [] kind = "noblank" ->
           <<LineItem(StartLine(Boundary)),
             LineItem(ContentRangeLine("Content-Range", Num(x), Num(y))),
             LineItem(ContentTypeLine), LineItem(BlankLine)>>
      [] kind = "wrongboundary" ->
           <<LineItem(StartLine(OtherBoundary)), LineItem(ContentTypeLine),
             LineItem(ContentRangeLine("Content-Range", Num(x), Num(y))),
             LineItem(BlankLine)>>
      [] OTHER ->
           <<LineItem(StartLine(Boundary)), LineItem(ContentTypeLine),
             LineItem(ContentRangeLine("Content-Range", Num(x), Num(y))),
             LineItem(BlankLine)>>

PartKinds == {"mismatch", "nocolon", "badrange", "noblank", "wrongboundary"}
TruncKinds == {"truncEOF", "truncAbort"}

RECURSIVE MultipartBody(_, _, _, _, _)
MultipartBody(parts, i, kind, j, m) ==
    IF i > Len(parts) THEN <<LineItem(CloseLine(Boundary))>>
    ELSE LET x == parts[i][1]
             y == parts[i][2]
         IN IF i = j /\ kind = "closeEarly"
            THEN <<LineItem(CloseLine(Boundary))>>
            ELSE IF i = j /\ kind \in TruncKinds
            THEN PartHead(x, y, "std") \o DataItems(x, m)
                 \o (IF kind = "truncAbort" THEN <<AbortItem>> ELSE <<>>)
            ELSE PartHead(x, y, IF i = j \/ kind = "lower" THEN kind ELSE "std")
                 \o DataItems(x, y - x + 1) \o <<LineItem(BlankLine)>>
                 \o MultipartBody(parts, i + 1, kind, j, m)

ContentTypeOf(kind) ==
    CASE kind = "noctype" -> [present |-> FALSE, value |-> <<>>]
      [] kind = "noboundary" ->
           [present |-> TRUE, value |-> <<Sym("application/octet-stream")>>]
      [] kind = "emptyboundary" ->
           [present |-> TRUE,
            value |-> <<Sym("multipart/byteranges"), Sym(";"), Sym(" "),
                        Sym("boundary=")>>]
      [] kind = "longboundary" ->
           [present |-> TRUE,
            value |-> <<Sym("multipart/byteranges"), Sym(";"), Sym(" "),
                        Sym("boundary="), LongBoundary>>]
      [] OTHER ->
           [present |-> TRUE,
            value |-> <<Sym("multipart/byteranges"), Sym(";"), Sym(" "),
                        Sym("boundary="), Boundary>>]

Response(begin, code, kind, j, m, answerSize, stream) ==
    [begin |-> begin, code |-> code, kind |-> kind, j |-> j, m |-> m,
     ctype |-> ContentTypeOf(kind), answerSize |-> answerSize, stream |-> stream]

Responses206(hv) ==
    LET parts == ServerParts(hv)
        k == Len(parts)
        body(kind, j, m) == MultipartBody(parts, 1, kind, j, m)
    IN  {Response(0, 206, kind, 0, 0, -1, body(kind, 0, 0)) :
            kind \in {"good", "lower", "noctype", "noboundary", "emptyboundary",
                      "longboundary"}}
        \cup {Response(0, 206, "raw", 0, 0, -1,
                       DataItems(parts[1][1], parts[1][2] - parts[1][1] + 1)) :
                 z \in IF k >= 1 THEN {0} ELSE {}}
        \cup {Response(0, 206, kind, j, 0, -1, body(kind, j, 0)) :
                 kind \in PartKinds \cup {"closeEarly"}, j \in 1..k}
        \cup UNION {{Response(0, 206, kind, j, m, -1, body(kind, j, m)) :
                        kind \in TruncKinds,
                        m \in 0..(Min(parts[j][2] - parts[j][1] + 1, MaxSize) - 1)} :
                    j \in 1..k}

Responses200 == {Response(0, 200, "whole", 0, 0, a, <<>>) : a \in AnswerSizes}

HttpCodes == {404, 416}
ResponsesOther == {Response(0, c, "status", 0, 0, -1, <<>>) : c \in HttpCodes}

\* beginRequest returning non-zero
ResponsesFailed == {Response(-1, 0, "nobegin", 0, 0, -1, <<>>)}

Responses(hv) ==
    Responses206(hv) \cup Responses200 \cup ResponsesOther \cup ResponsesFailed

(***************************************************************************)
(* State of one preadVec call.                                             *)
(***************************************************************************)
VARIABLES
    pc,               \* where the call is
    uri_multirange,   \* iocontext._uri.getFragmentParam("multirange")
    input_vec,        \* the caller's ranges [diov_offset, diov_size]
    output_vec,       \* the caller's results [diov_buffer, diov_size]
    mem,              \* mem[i]: the bytes last written to input i's buffer
    vecRanges, it, p_diff, ret, opresult, bytes_to_read, tmp_err,
                      \* locals of performMultirange
    req,              \* the GetRequest of the current iteration
    off, parse_ret, boundary,
                      \* locals of parseMultipartRequest (ret is parse_ret)
    cmap, it_start, it_end, total_read_size,
                      \* locals of simulateMultiPartRequest
    result,           \* the value preadVec returned
    thrown,           \* the error of the exception that left preadVec
    preads,           \* history: the inputs read by a single-range pread
    served,           \* history: the answers to the multi-range GETs
    seen,             \* history: the part headers the parser accepted
    infos, n_try,     \* locals of parseMultipartRequest handed to
                      \* parse_multi_part_header (lines 417-418)
    header_ret,       \* the value parse_multi_part_header returned (line 419)
    hlines,           \* history: what each readLine of the header gave
    counter,          \* the cursor of the offset provider (line 97)
    provided          \* history: what each call of the provider gave

callVars == <<uri_multirange, input_vec>>
outVars == <<output_vec, mem>>
loopVars == <<vecRanges, it, p_diff, ret, opresult, bytes_to_read>>
parseVars == <<off, parse_ret, boundary>>
simVars == <<cmap, it_start, it_end, total_read_size>>
endVars == <<result, thrown>>
\* Spec parses a part header in one step (ParsePart) and leaves these alone;
\* SpecParser follows one header call by call
headerVars == <<infos, n_try, header_ret, hlines>>
\* Spec runs the provider inside generateRangeHeaders (PerformMultirange)
\* and leaves these alone; SpecProvider follows its calls one by one
providerVars == <<counter, provided>>
vars == <<pc, callVars, outVars, loopVars, tmp_err, req, parseVars, simVars,
          endVars, preads, served, seen, headerVars, providerVars>>

count_vec == Len(input_vec)

\* dav_ssize_t tmp_ret=-1 of performMultirange, never assigned again
tmp_ret == -1

NoRequest ==
    [open |-> FALSE, code |-> 0, ctype |-> [present |-> FALSE, value |-> <<>>],
     answerSize |-> -1, stream |-> <<>>]

\* lines 143 and 158: req.endRequest
endRequest(r) == NoRequest

\* a variant in which the request outlives the loop's turn
ScopeExit_Leak(r) == r

\* lines 124 and 180: req is a local of the loop's turn, ~GetRequest (not
\* in this file) releases it when the turn ends or is left by break
ScopeExit(r) == NoRequest

OpenRequest(r) ==
    [open |-> TRUE, code |-> r.code, ctype |-> r.ctype,
     answerSize |-> r.answerSize, stream |-> r.stream]

Served(r, hv) ==
    [code |-> r.code, kind |-> r.kind, j |-> r.j, m |-> r.m,
     answerSize |-> r.answerSize, begin |-> r.begin, ranges |-> hv,
     parts |-> ServerParts(hv)]

\* preadVec never reads output_vec: its entries hold what the caller left in
\* them, a size of 0 or a stale one larger than any small range, and a
\* buffer pointer that is not the input's
StaleSize == MaxSize + 1

Inputs ==
    {v \in UNION {[1..n -> [diov_offset : Offsets, diov_size : Sizes]] :
                     n \in 0..MaxN} :
        \A i \in 2..Len(v) : v[i].diov_size \in SmallSizes}

Init ==
    /\ pc = "preadVec"
    /\ uri_multirange \in {"", "false"}
    /\ input_vec \in Inputs
    /\ \E stale \in {0, StaleSize} :
          output_vec = [i \in 1..Len(input_vec) |->
                           [diov_buffer |-> NoBuffer, diov_size |-> stale]]
    /\ mem = [i \in 1..Len(input_vec) |-> <<>>]
    /\ vecRanges = <<>> /\ it = 1 /\ p_diff = 0 /\ ret = 0
    /\ opresult = "SUCCESS" /\ bytes_to_read = 0 /\ tmp_err = NoError
    /\ req = NoRequest
    /\ off = 0 /\ parse_ret = 0 /\ boundary = <<>>
    /\ cmap = <<>> /\ it_start = 1 /\ it_end = 1 /\ total_read_size = 0
    /\ result = 0 /\ thrown = NoError
    /\ preads = <<>> /\ served = <<>> /\ seen = <<>>
    /\ infos = ChunkInfo /\ n_try = 0 /\ header_ret = 0 /\ hlines = <<>>
    /\ counter = 0 /\ provided = <<>>

(***************************************************************************)
(* preadVec: the dispatch of lines 218-224.                                *)
(***************************************************************************)
PreadVecEmpty ==
    /\ pc = "preadVec"
    /\ count_vec = 0
    /\ result' = 0
    /\ pc' = "returned"
    /\ UNCHANGED <<providerVars, headerVars, callVars, outVars, loopVars, tmp_err, req, parseVars,
                   simVars, thrown, preads, served, seen>>

AllInputs == [i \in 1..count_vec |-> i]

PreadVecSimulate ==
    /\ pc = "preadVec"
    /\ count_vec # 0
    /\ count_vec = 1 \/ uri_multirange = "false"
    /\ LET r == simulateMultirange(input_vec, output_vec, mem)
       IN /\ result' = r.size
          /\ output_vec' = r.out
          /\ mem' = r.mem
    /\ preads' = preads \o AllInputs
    /\ pc' = "returned"
    /\ UNCHANGED <<providerVars, headerVars, callVars, loopVars, tmp_err, req, parseVars, simVars,
                   thrown, served, seen>>

(***************************************************************************)
(* performMultirange.                                                      *)
(***************************************************************************)
\* lines 94-113: the locals, the byte sum, the header values
PerformMultirange ==
    /\ pc = "preadVec"
    /\ count_vec # 0
    /\ ~(count_vec = 1 \/ uri_multirange = "false")
    /\ \E budget \in HeaderBudgets :
          vecRanges' = generateRangeHeaders(budget, input_vec)
    /\ bytes_to_read' = SumSeq([i \in 1..count_vec |-> input_vec[i].diov_size])
    /\ it' = 1 /\ p_diff' = 0 /\ ret' = 0 /\ opresult' = "SUCCESS"
    /\ tmp_err' = NoError
    /\ pc' = "loop"
    /\ UNCHANGED <<providerVars, headerVars, callVars, outVars, req, parseVars, simVars, endVars,
                   preads, served, seen>>

\* lines 120-122: a header value of one range
LoopSingle ==
    /\ pc = "loop"
    /\ it <= Len(vecRanges)
    /\ vecRanges[it].first = 1
    /\ LET r == singleRangeRequest(input_vec, output_vec, mem, p_diff + 1)
       IN /\ ret' = ret + r.size
          /\ output_vec' = r.out
          /\ mem' = r.mem
    /\ preads' = Append(preads, p_diff + 1)
    /\ p_diff' = p_diff + 1
    /\ it' = it + 1
    /\ UNCHANGED <<providerVars, headerVars, pc, callVars, vecRanges, opresult,
                   bytes_to_read, tmp_err, req, parseVars, simVars, endVars,
                   served, seen>>

\* a variant that gives up as soon as one of the two tests holds
SizeGuard_Either(answerSize, toRead) ==
    answerSize > GuardSize \/ answerSize > 2 * toRead

\* line 155
SizeGuard(answerSize, toRead) ==
    answerSize > GuardSize /\ answerSize > 2 * toRead

\* a variant without the break: the loop goes on with the next header value
BadStatus_Continue ==
    /\ tmp_err' = "httpcode"
    /\ ret' = -1
    /\ req' = NoRequest
    /\ it' = it + 1
    /\ UNCHANGED <<pc, outVars, vecRanges, p_diff, opresult,
                   bytes_to_read, parseVars, simVars>>

\* lines 167-171: a status other than 206 and 200
BadStatus ==
    /\ tmp_err' = "httpcode"
    /\ ret' = -1
    /\ req' = ScopeExit(req)
    /\ pc' = "finish"
    /\ UNCHANGED <<outVars, vecRanges, it, p_diff, opresult,
                   bytes_to_read, parseVars, simVars>>

\* lines 124-179 up to the call of the parser or of the simulator, for the
\* answer r of the server
BeginRequest(r) ==
    IF r.begin # 0
    THEN \* beginRequest failed: nothing is done, the loop goes on
         /\ tmp_err' = "transport"
         /\ it' = it + 1
         /\ UNCHANGED <<pc, outVars, vecRanges, p_diff, ret, opresult,
                        bytes_to_read, req, parseVars, simVars>>
    ELSE IF r.code = 206
    THEN \* parseMultipartRequest is entered: lines 404-413
         LET mi == get_multi_part_info(r.ctype)
         IN /\ req' = OpenRequest(r)
            /\ off' = 0
            /\ boundary' = mi.boundary
            /\ parse_ret' = IF mi.rc # 0 THEN -1 ELSE 0
            /\ pc' = IF mi.rc # 0 THEN "parsed" ELSE "parse"
            /\ UNCHANGED <<outVars, loopVars, tmp_err, simVars>>
    ELSE IF r.code = 200
    THEN IF SizeGuard(r.answerSize, bytes_to_read)
         THEN /\ opresult' = "NOMULTIRANGE"
              /\ req' = endRequest(OpenRequest(r))
              /\ pc' = "finish"
              /\ UNCHANGED <<outVars, vecRanges, it, p_diff, ret,
                             bytes_to_read, tmp_err, parseVars, simVars>>
         ELSE \* simulateMultiPartRequest is entered: lines 564-569
              /\ opresult' = "SUCCESS_BUT_NO_MULTIRANGE"
              /\ req' = OpenRequest(r)
              /\ cmap' = fill_map_chunk(input_vec)
              /\ output_vec' = ElemChunkReset(input_vec)
              /\ it_start' = 1 /\ it_end' = 1 /\ total_read_size' = 0
              /\ pc' = "scatter"
              /\ UNCHANGED <<mem, vecRanges, it, p_diff, ret, bytes_to_read,
                             tmp_err, parseVars>>
    ELSE BadStatus

\* lines 123-180: a header value of several ranges
LoopGet ==
    /\ pc = "loop"
    /\ it <= Len(vecRanges)
    /\ vecRanges[it].first # 1
    /\ IF tmp_err # NoError
       THEN /\ ret' = -1
            /\ pc' = "finish"
            /\ UNCHANGED <<outVars, vecRanges, it, p_diff, opresult,
                           bytes_to_read, tmp_err, req, parseVars, simVars,
                           served>>
       ELSE \E r \in Responses(vecRanges[it].second) :
               /\ BeginRequest(r)
               /\ served' = Append(served, Served(r, vecRanges[it].second))
    /\ UNCHANGED <<providerVars, headerVars, callVars, endVars, preads, seen>>

\* line 117: the header values are exhausted
LoopEnd ==
    /\ pc = "loop"
    /\ it > Len(vecRanges)
    /\ pc' = "finish"
    /\ UNCHANGED <<providerVars, headerVars, callVars, outVars, loopVars, tmp_err, req, parseVars,
                   simVars, endVars, preads, served, seen>>

(***************************************************************************)
(* parseMultipartRequest: the loop of lines 415-444, then lines 446-452.   *)
(* It is called with input_vec + p_diff and with count_vec, so entry off   *)
(* of its vectors is entry p_diff + off of the caller's (InputAt).         *)
(***************************************************************************)
InputAt(o) == input_vec[p_diff + o + 1]

\* a variant that compares the offsets only
RangeMismatch_OffsetOnly(in, info) ==
    in.diov_size # 0 /\ info.offset # in.diov_offset

\* a variant that also compares the part of an empty range
RangeMismatch_NoZeroCase(in, info) ==
    info.offset # in.diov_offset \/ info.size # in.diov_size

\* lines 429-431
RangeMismatch(in, info) ==
    in.diov_size # 0
    /\ (info.offset # in.diov_offset \/ info.size # in.diov_size)

EndOfRequest(info) == info.offset = 0 /\ info.size = 0 /\ info.bounded

SeenPart(idx, info) == [idx |-> idx, offset |-> info.offset, size |-> info.size]

\* one turn of the loop
ParsePart ==
    /\ pc = "parse"
    /\ off < count_vec
    /\ LET h == parse_multi_part_header(req.stream, boundary, ChunkInfo, 0)
           idx == p_diff + off + 1
           c == copyChunk(h.stream, InputAt(off), output_vec[idx], idx, mem[idx])
       IN IF h.rc < 0
          THEN /\ parse_ret' = -1
               /\ tmp_err' = SetupError(tmp_err, h.err)
               /\ req' = [req EXCEPT !.stream = h.stream]
               /\ pc' = "parsed"
               /\ UNCHANGED <<outVars, off, seen>>
          ELSE IF EndOfRequest(h.info)
          THEN /\ req' = [req EXCEPT !.stream = h.stream]
               /\ pc' = "parsed"
               /\ UNCHANGED <<outVars, off, parse_ret, tmp_err, seen>>
          ELSE IF RangeMismatch(InputAt(off), h.info)
          THEN /\ seen' = Append(seen, SeenPart(idx, h.info))
               /\ parse_ret' = -1
               /\ tmp_err' = SetupError(tmp_err, "rangemismatch")
               /\ req' = [req EXCEPT !.stream = h.stream]
               /\ pc' = "parsed"
               /\ UNCHANGED <<outVars, off>>
          ELSE /\ seen' = Append(seen, SeenPart(idx, h.info))
               /\ req' = [req EXCEPT !.stream = c.rest]
               /\ tmp_err' = SetupError(tmp_err, c.err)
               /\ mem' = [mem EXCEPT ![idx] = c.mem]
               /\ output_vec' = [output_vec EXCEPT ![idx] = c.o]
               /\ IF c.ret < 0
                  THEN /\ parse_ret' = -1
                       /\ pc' = "parsed"
                       /\ UNCHANGED off
                  ELSE /\ parse_ret' = parse_ret + c.ret
                       /\ off' = off + 1
                       /\ UNCHANGED pc
    /\ UNCHANGED <<providerVars, headerVars, callVars, loopVars, boundary, simVars, endVars, preads,
                   served>>

\* all the parts were read: the rest of the answer is dumped
ParseDrain ==
    /\ pc = "parse"
    /\ off >= count_vec
    /\ req' = [req EXCEPT !.stream = <<>>]
    /\ pc' = "parsed"
    /\ UNCHANGED <<providerVars, headerVars, callVars, outVars, loopVars, tmp_err, parseVars, simVars,
                   endVars, preads, served, seen>>

\* lines 135-146 and 173-174: performMultirange takes the parser's result
ParseReturn ==
    /\ pc = "parsed"
    /\ req' = IF parse_ret = -1 THEN endRequest(req) ELSE ScopeExit(req)
    /\ IF parse_ret = -1
       THEN /\ ret' = parse_ret
            /\ opresult' = "NOMULTIRANGE"
            /\ pc' = "finish"
            /\ UNCHANGED <<it, p_diff>>
       ELSE /\ ret' = parse_ret + tmp_ret
            /\ p_diff' = p_diff + vecRanges[it].first
            /\ it' = it + 1
            /\ pc' = "loop"
            /\ UNCHANGED opresult
    /\ UNCHANGED <<providerVars, headerVars, callVars, outVars, vecRanges, bytes_to_read, tmp_err,
                   parseVars, simVars, endVars, preads, served, seen>>

(***************************************************************************)
(* simulateMultiPartRequest: the loop of lines 570-574, then 575-579.      *)
(***************************************************************************)
\* readBlock delivered the next len bytes of the resource
ScatterBlock ==
    /\ pc = "scatter"
    /\ \E len \in 1..MaxBlock :
          /\ total_read_size + len <= ResLen
          /\ LET w == balance_iterator_windows(cmap, input_vec, it_start, it_end,
                                               total_read_size, len)
                 f == fill_concerned_chunk_buffer(
                          cmap, input_vec, output_vec, mem, w.start, w.end,
                          ResBytes(total_read_size, len), total_read_size)
             IN /\ it_start' = w.start
                /\ it_end' = w.end
                /\ output_vec' = f.out
                /\ mem' = f.mem
                /\ total_read_size' = total_read_size + len
    /\ UNCHANGED <<providerVars, headerVars, pc, callVars, loopVars, tmp_err, req,
                   parseVars, cmap, endVars, preads, served, seen>>

\* readBlock returned 0: the body is over
ScatterEnd ==
    /\ pc = "scatter"
    /\ total_read_size = ResLen
    /\ ret' = sum_all_chunk_size(output_vec)
    /\ req' = ScopeExit(req)
    /\ pc' = "finish"
    /\ UNCHANGED <<providerVars, headerVars, callVars, outVars, vecRanges, it, p_diff, opresult,
                   bytes_to_read, tmp_err, parseVars, simVars, endVars,
                   preads, served, seen>>

\* readBlock failed
ScatterAbort ==
    /\ pc = "scatter"
    /\ total_read_size < ResLen
    /\ tmp_err' = SetupError(tmp_err, "transport")
    /\ ret' = -1
    /\ req' = ScopeExit(req)
    /\ pc' = "finish"
    /\ UNCHANGED <<providerVars, headerVars, callVars, outVars, vecRanges, it, p_diff, opresult,
                   bytes_to_read, parseVars, simVars, endVars, preads, served, seen>>

(***************************************************************************)
(* The end of performMultirange (lines 184-185) and of preadVec (226-233). *)
(***************************************************************************)
\* checkDavixError (not in this file): an error that is set is thrown
checkDavixError(err) == err # NoError

Throw ==
    /\ pc = "finish"
    /\ checkDavixError(tmp_err)
    /\ thrown' = tmp_err
    /\ pc' = "thrown"
    /\ UNCHANGED <<providerVars, headerVars, callVars, outVars, loopVars, tmp_err, req, parseVars,
                   simVars, result, preads, served, seen>>

Succeeded(res) == res = "SUCCESS" \/ res = "SUCCESS_BUT_NO_MULTIRANGE"

PreadVecReturn ==
    /\ pc = "finish"
    /\ ~checkDavixError(tmp_err)
    /\ Succeeded(opresult)
    /\ result' = ret
    /\ pc' = "returned"
    /\ UNCHANGED <<providerVars, headerVars, callVars, outVars, loopVars, tmp_err, req, parseVars,
                   simVars, thrown, preads, served, seen>>

PreadVecFallback ==
    /\ pc = "finish"
    /\ ~checkDavixError(tmp_err)
    /\ ~Succeeded(opresult)
    /\ LET r == simulateMultirange(input_vec, output_vec, mem)
       IN /\ result' = r.size
          /\ output_vec' = r.out
          /\ mem' = r.mem
    /\ preads' = preads \o AllInputs
    /\ pc' = "returned"
    /\ UNCHANGED <<providerVars, headerVars, callVars, loopVars, tmp_err, req, parseVars, simVars,
                   thrown, served, seen>>

Next ==
    \/ PreadVecEmpty
    \/ PreadVecSimulate
    \/ PerformMultirange
    \/ LoopSingle
    \/ LoopGet
    \/ LoopEnd
    \/ ParsePart
    \/ ParseDrain
    \/ ParseReturn
    \/ ScatterBlock
    \/ ScatterEnd
    \/ ScatterAbort
    \/ Throw
    \/ PreadVecReturn
    \/ PreadVecFallback

Spec == Init /\ [][Next]_vars

(***************************************************************************)
(* One call of parse_multi_part_header by parseMultipartRequest (lines     *)
(* 417-422), followed activation by activation, on the answers a server    *)
(* may send where a part header is expected.                               *)
(***************************************************************************)
\* the longest run of items before and after the padding lines
MaxMid == 1
MaxTail == 2

\* what the body may hold
HeaderItems ==
    {LineItem(BlankLine),
     LineItem(StartLine(Boundary)),
     LineItem(StartLine(OtherBoundary)),
     LineItem(CloseLine(Boundary)),
     LineItem(ContentTypeLine),
     LineItem(ContentRangeLine("Content-Range", Num(1), Num(2))),
     LineItem(ContentRangeLine("content-range", Num(0), Num(0))),
     LineItem(ContentRangeLine("Content-Range", Num(2), Num(1))),
     LineItem(RawLine),
     ByteItem(0),
     AbortItem}

ItemRuns(n) == UNION {[1..k -> HeaderItems] : k \in 0..n}

Blanks(n) == [k \in 1..n |-> LineItem(BlankLine)]
OtherHeaders(n) == [k \in 1..n |-> LineItem(ContentTypeLine)]

\* numbers of empty lines before the boundary and of other headers before
\* Content-Range: few, or as many as the limit of line 342 allows, or more
Paddings ==
    {<<0, 0>>, <<1, 1>>,
     <<MaxTry - 2, 0>>, <<0, MaxTry - 2>>,
     <<MaxTry - 1, 0>>, <<0, MaxTry - 1>>,
     <<MaxTry + 1, 0>>, <<1, MaxTry + 1>>}

HeaderStreams ==
    {Blanks(p[1]) \o m \o OtherHeaders(p[2]) \o t :
        p \in Paddings, m \in ItemRuns(MaxMid), t \in ItemRuns(MaxTail)}

InitParser ==
    /\ pc = "header"
    /\ \E s \in HeaderStreams :
          req = [open |-> TRUE, code |-> 206,
                 ctype |-> [present |-> FALSE, value |-> <<>>],
                 answerSize |-> -1, stream |-> s]
    /\ boundary = <<Boundary>>
    /\ infos = ChunkInfo /\ n_try = 0 /\ header_ret = 0 /\ hlines = <<>>
    /\ counter = 0 /\ provided = <<>>
    /\ tmp_err = NoError
    /\ uri_multirange = "" /\ input_vec = <<>>
    /\ output_vec = <<>> /\ mem = <<>>
    /\ vecRanges = <<>> /\ it = 1 /\ p_diff = 0 /\ ret = 0
    /\ opresult = "SUCCESS" /\ bytes_to_read = 0
    /\ off = 0 /\ parse_ret = 0
    /\ cmap = <<>> /\ it_start = 1 /\ it_end = 1 /\ total_read_size = 0
    /\ result = 0 /\ thrown = NoError
    /\ preads = <<>> /\ served = <<>> /\ seen = <<>>

\* lines 337-370: one activation
HeaderCall ==
    /\ pc = "header"
    /\ LET c == parse_multi_part_header_once(req.stream, boundary, infos, n_try)
       IN /\ req' = [req EXCEPT !.stream = c.stream]
          /\ infos' = c.info
          /\ n_try' = c.n_try
          /\ hlines' = IF c.line.read
                       THEN Append(hlines, [ret |-> c.line.ret,
                                            buffer |-> c.line.buffer])
                       ELSE hlines
          /\ tmp_err' = SetupError(tmp_err, c.err)
          /\ header_ret' = c.rc
          /\ pc' = IF c.done THEN "headerDone" ELSE "header"
    /\ UNCHANGED <<providerVars, callVars, outVars, loopVars, parseVars,
                   simVars, endVars, preads, served, seen>>

NextParser == HeaderCall

SpecParser == InitParser /\ [][NextParser]_vars

(***************************************************************************)
(* One call of find_header_params (line 362) on the lines a server may     *)
(* send where Content-Range is expected.                                   *)
(***************************************************************************)
\* what may stand where a number is expected: numbers, a numeral too large
\* for a long, a numeral followed by other bytes
RangeTokens ==
    {Num(0), Num(1), Num(2), Num(ResLen - 1), BigNum, Sym("2x")}

HeaderNames == {"Content-Range", "content-range", "Content-Type"}

ParamLines ==
    {ContentRangeLine(name, x, y) :
        name \in HeaderNames, x \in RangeTokens, y \in RangeTokens}
    \cup {<<Sym(name), Sym(":"), Sym(" "), Sym("bytes"), Sym(" "), x, Sym("-"), y>> :
             name \in HeaderNames, x \in RangeTokens, y \in RangeTokens}
    \cup {<<Sym(name), Sym(":"), Sym(" "), Sym("bytes"), Sym(" "), x>> :
             name \in HeaderNames, x \in RangeTokens}
    \cup {<<Sym(name), Sym(":"), Sym(" "), Sym("bytes")>> : name \in HeaderNames}
    \cup {<<Sym(name), Sym(" "), Sym("bytes"), Sym(" "), x, Sym("-"), y>> :
             name \in HeaderNames, x \in RangeTokens, y \in RangeTokens}
    \cup {BlankLine, RawLine}

\* every variable that the parser of part headers does not use
OutsideHeader ==
    /\ boundary = <<Boundary>>
    /\ tmp_err = NoError
    /\ req = NoRequest
    /\ uri_multirange = "" /\ input_vec = <<>>
    /\ output_vec = <<>> /\ mem = <<>>
    /\ vecRanges = <<>> /\ it = 1 /\ p_diff = 0 /\ ret = 0
    /\ opresult = "SUCCESS" /\ bytes_to_read = 0
    /\ off = 0 /\ parse_ret = 0
    /\ cmap = <<>> /\ it_start = 1 /\ it_end = 1 /\ total_read_size = 0
    /\ result = 0 /\ thrown = NoError
    /\ preads = <<>> /\ served = <<>> /\ seen = <<>>
    /\ counter = 0 /\ provided = <<>>

\* the line is read, the part's boundary was seen, no range is known yet
InitParams ==
    /\ pc = "params"
    /\ \E line \in ParamLines :
          hlines = <<[ret |-> Len(line), buffer |-> line]>>
    /\ infos = [ChunkInfo EXCEPT !.bounded = TRUE]
    /\ n_try = 1 /\ header_ret = 0
    /\ OutsideHeader

\* line 362: find_header_params(buffer, ret, &(info.size), &(info.offset))
FindHeaderParams ==
    /\ pc = "params"
    /\ LET fp == find_header_params(hlines[1].buffer)
       IN /\ header_ret' = fp.rc
          /\ infos' = IF fp.rc = 1
                      THEN [infos EXCEPT !.offset = fp.offset, !.size = fp.size]
                      ELSE infos
    /\ pc' = "paramsDone"
    /\ UNCHANGED <<providerVars, callVars, outVars, loopVars, tmp_err, req,
                   parseVars, simVars, endVars, preads, served, seen, n_try,
                   hlines>>

NextParams == FindHeaderParams

SpecParams == InitParams /\ [][NextParams]_vars

(***************************************************************************)
(* The offset provider (lines 80-87) as generateRangeHeaders drives it:    *)
(* call after call on one cursor, and on after it is exhausted.            *)
(***************************************************************************)
\* calls made after the provider is exhausted
ExtraCalls == 2

InitProvider ==
    /\ pc = "provider"
    /\ input_vec \in Inputs
    /\ counter = 0 /\ provided = <<>>
    /\ uri_multirange = ""
    /\ output_vec = [i \in 1..Len(input_vec) |->
                        [diov_buffer |-> NoBuffer, diov_size |-> 0]]
    /\ mem = [i \in 1..Len(input_vec) |-> <<>>]
    /\ vecRanges = <<>> /\ it = 1 /\ p_diff = 0 /\ ret = 0
    /\ opresult = "SUCCESS" /\ bytes_to_read = 0 /\ tmp_err = NoError
    /\ req = NoRequest
    /\ off = 0 /\ parse_ret = 0 /\ boundary = <<>>
    /\ cmap = <<>> /\ it_start = 1 /\ it_end = 1 /\ total_read_size = 0
    /\ result = 0 /\ thrown = NoError
    /\ preads = <<>> /\ served = <<>> /\ seen = <<>>
    /\ infos = ChunkInfo /\ n_try = 0 /\ header_ret = 0 /\ hlines = <<>>

\* one call offsetProvider(begin, end)
ProviderCall ==
    /\ pc = "provider"
    /\ Len(provided) < count_vec + ExtraCalls
    /\ LET p == davIOVecProvider(input_vec, counter, count_vec)
       IN /\ counter' = p.counter
          /\ provided' = Append(provided,
                                [rc |-> p.rc, begin |-> p.begin, end |-> p.end])
    /\ UNCHANGED <<pc, headerVars, callVars, outVars, loopVars, tmp_err, req,
                   parseVars, simVars, endVars, preads, served, seen>>

NextProvider == ProviderCall

SpecProvider == InitProvider /\ [][NextProvider]_vars

(***************************************************************************)
(* Vocabulary of the properties.                                           *)
(***************************************************************************)
Last(s) == s[Len(s)]

\* the bytes input i asks for and the resource holds
Wanted(i) == ResBytes(input_vec[i].diov_offset, input_vec[i].diov_size)

\* output i describes the first bytes of buffer i and they are the resource's
HoldsResource(i) ==
    /\ output_vec[i].diov_buffer = i
    /\ output_vec[i].diov_size <= Len(mem[i])
    /\ \A k \in 1..output_vec[i].diov_size :
          mem[i][k] = input_vec[i].diov_offset + k - 1

\* output i is complete
Complete(i) == HoldsResource(i) /\ output_vec[i].diov_size = Len(Wanted(i))

OutputSum == SumSeq([i \in 1..count_vec |-> output_vec[i].diov_size])

\* the answer e is a 206 whose body is well formed and whose parts are the
\* ranges asked for, in order
Conforming(e) ==
    e.code = 206 /\ e.kind \in {"good", "lower"} /\ e.parts = e.ranges

\* no fallback to single-range requests took place: once a GET was sent, at
\* most count_vec - 2 inputs were read alone by the loop of performMultirange
NoFallback == Len(preads) < count_vec

\* the fallback ran: its preads are the last count_vec ones, one per input
FellBack ==
    /\ Len(preads) >= count_vec
    /\ SubSeq(preads, Len(preads) - count_vec + 1, Len(preads)) = AllInputs

NonEmptyRanges == \A i \in 1..count_vec : input_vec[i].diov_size >= 1

RequestedBytes == SumSeq([i \in 1..count_vec |-> input_vec[i].diov_size])

(***************************************************************************)
(* C1                                                                      *)
(***************************************************************************)
\* C1 (as claimed): N >= 2 ranges of at least one byte in one header value
\* and a conforming 206: every buffer holds the bytes of its range and
\* preadVec returns the sum of the output sizes.
C1_TotalIsSumOfOutputs ==
    (/\ pc = "returned"
     /\ count_vec >= 2
     /\ NonEmptyRanges
     /\ Len(vecRanges) = 1
     /\ Len(served) = 1
     /\ Conforming(served[1]))
    => /\ \A i \in 1..count_vec : Complete(i)
       /\ result = OutputSum

(***************************************************************************)
(* C2                                                                      *)
(***************************************************************************)
\* C2 (as claimed): with several header values, a conforming 206 to a header
\* value of k >= 2 ranges is a success: the parser returns the bytes of the
\* k ranges, no error is set, the k outputs are filled.
C2_EachHeaderValueSucceeds ==
    (/\ pc = "parsed"
     /\ NonEmptyRanges
     /\ Len(vecRanges) >= 2
     /\ vecRanges[it].first >= 2
     /\ Conforming(Last(served)))
    => /\ parse_ret = SumSeq([o \in 1..vecRanges[it].first |->
                                 input_vec[p_diff + o].diov_size])
       /\ tmp_err = NoError
       /\ \A o \in 1..vecRanges[it].first : Complete(p_diff + o)

(***************************************************************************)
(* C3                                                                      *)
(***************************************************************************)
\* the answer e is a 206 that cannot be parsed at its first part
FirstPartUnparsable(e) ==
    /\ e.code = 206
    /\ \/ e.kind \in {"noctype", "noboundary", "emptyboundary", "raw"}
       \/ e.kind = "wrongboundary" /\ e.j = 1

\* C3 (as claimed): ranges of at least one byte; when a 206 cannot be parsed at its very first part,
\* preadVec reports no error: it ends by returning, the outcome is
\* NOMULTIRANGE, every input was read by a single-range pread and the total
\* of these preads is returned.
C3_FirstPartFailureFallsBack ==
    (/\ pc \in {"returned", "thrown"}
     /\ NonEmptyRanges
     /\ served # <<>>
     /\ FirstPartUnparsable(Last(served)))
    => /\ pc = "returned"
       /\ opresult = "NOMULTIRANGE"
       /\ FellBack
       /\ result = SumSeq([i \in 1..count_vec |-> Len(Wanted(i))])

(***************************************************************************)
(* C4                                                                      *)
(***************************************************************************)
\* entry k of seen is a part header that differs from the non-empty range
\* it was read for
Mismatched(k) ==
    LET in == input_vec[seen[k].idx]
    IN /\ in.diov_size # 0
       /\ seen[k].offset # in.diov_offset \/ seen[k].size # in.diov_size

\* C4: once a part header differs from the non-empty range expected, the
\* call can only fail with the range-mismatch error: that part is the last
\* one looked at, none of its bytes reached the buffer, no single-range
\* fallback is made and preadVec does not return.
C4_RangeMismatchIsFatal ==
    \A k \in 1..Len(seen) :
        Mismatched(k)
        => /\ k = Len(seen)
           /\ tmp_err = "rangemismatch"
           /\ pc \in {"parsed", "finish", "thrown"}
           /\ pc = "thrown" => thrown = "rangemismatch"
           /\ output_vec[seen[k].idx].diov_buffer = NoBuffer
           /\ mem[seen[k].idx] = <<>>
           /\ NoFallback

\* the second part of an answer mismatched after the first was copied, and
\* the call ended with the exception
C4_Witness ==
    /\ pc = "thrown"
    /\ thrown = "rangemismatch"
    /\ Len(seen) = 2
    /\ Mismatched(2)
    /\ output_vec[seen[1].idx].diov_size >= 1

(***************************************************************************)
(* C5                                                                      *)
(***************************************************************************)
\* the ranges have at least one byte and the parser failed on the header of
\* a part after the first one, whose bytes were copied
LaterPartHeaderFailure ==
    /\ NonEmptyRanges
    /\ served # <<>>
    /\ Last(served).code = 206
    /\ Last(served).kind \in {"nocolon", "badrange", "noblank", "wrongboundary"}
    /\ Last(served).j >= 2
    /\ off = Last(served).j - 1
    /\ parse_ret = -1

\* C5 (as claimed): a part-header parse failure after the first part is
\* fatal: preadVec does not return and makes no single-range fallback.
C5_LaterHeaderFailureIsFatal ==
    LaterPartHeaderFailure => (pc # "returned" /\ NoFallback)

(***************************************************************************)
(* C6                                                                      *)
(***************************************************************************)
\* C6 (as claimed): ranges of at least one byte; the router goes past part o only when the body read
\* filled all of input o: a short read (0 bytes included) stops the call.
C6_ShortReadIsFatal ==
    (pc \in {"parse", "parsed"} /\ NonEmptyRanges)
    => \A o \in 1..off :
          /\ output_vec[p_diff + o].diov_buffer = p_diff + o
          /\ output_vec[p_diff + o].diov_size = input_vec[p_diff + o].diov_size

(***************************************************************************)
(* C7                                                                      *)
(***************************************************************************)
\* C7 (as claimed): ranges of at least one byte; when the parser reads the
\* closing boundary line after one part at least and before all the expected
\* parts were processed, the router returns normally with
\* the bytes copied so far and no error.
C7_ClosingBoundaryEndsBody ==
    (/\ pc = "parsed"
     /\ NonEmptyRanges
     /\ Last(served).kind = "closeEarly"
     /\ off = Last(served).j - 1
     /\ off >= 1)
    => /\ parse_ret = SumSeq([o \in 1..off |-> output_vec[p_diff + o].diov_size])
       /\ tmp_err = NoError

(***************************************************************************)
(* C8                                                                      *)
(***************************************************************************)
\* what the orchestrator did with the last answer, a 200 of Content-Length a,
\* when the full body is abandoned exactly if a exceeds limit and 2 * asked
WholeBodyDecision(limit) ==
    (served # <<>> /\ Last(served).code = 200)
    => IF Last(served).answerSize > limit
          /\ Last(served).answerSize > 2 * RequestedBytes
       THEN /\ opresult = "NOMULTIRANGE"
            /\ pc \in {"finish", "returned"}
            /\ cmap = <<>>
            /\ pc = "returned" => FellBack
       ELSE /\ opresult = "SUCCESS_BUT_NO_MULTIRANGE"
            /\ pc \in {"scatter", "finish", "returned", "thrown"}
            /\ Len(cmap) = count_vec
            /\ NoFallback

\* C8 (as claimed): the full body is abandoned exactly when Content-Length
\* exceeds 1 MiB and twice the bytes requested.
C8_GuardAtOneMiB == WholeBodyDecision(1048576)

\* C8 (amended): the full body is abandoned exactly when Content-Length
\* exceeds 1000000 bytes and twice the bytes requested; for every other
\* Content-Length, -1 included, the body is streamed and scattered.
C8_GuardAtOneMillion == WholeBodyDecision(1000000)

\* a 200 of 1000001 bytes was abandoned and the call ended by the fallback
C8_Witness ==
    /\ pc = "returned"
    /\ served # <<>>
    /\ Last(served).code = 200
    /\ Last(served).answerSize = 1000001
    /\ opresult = "NOMULTIRANGE"
    /\ FellBack

(***************************************************************************)
(* C9                                                                      *)
(***************************************************************************)
\* the simulator has streamed the first total_read_size bytes of the body
\* and no read failed
Streamed ==
    \/ pc = "scatter"
    \/ /\ pc \in {"finish", "returned"}
       /\ opresult = "SUCCESS_BUT_NO_MULTIRANGE"
       /\ tmp_err = NoError

\* C9: after the simulator has streamed a body of L = total_read_size bytes,
\* in whatever blocks, every output i has the size
\* min(size_i, max(0, L - offset_i)) and its buffer holds the resource's
\* bytes from offset_i on.
C9_ScatterIsExact ==
    Streamed
    => \A i \in 1..count_vec :
          /\ output_vec[i].diov_size =
                Min(input_vec[i].diov_size,
                    Max(0, total_read_size - input_vec[i].diov_offset))
          /\ HoldsResource(i)

\* the whole body was streamed for three ranges given out of order, two of
\* them overlapping and one reaching past the end of the resource
C9_Witness ==
    /\ pc = "scatter"
    /\ total_read_size = ResLen
    /\ count_vec = 3
    /\ input_vec[1].diov_offset > input_vec[2].diov_offset
    /\ input_vec[2].diov_offset + input_vec[2].diov_size > input_vec[3].diov_offset
    /\ input_vec[2].diov_offset < input_vec[3].diov_offset
    /\ output_vec[1].diov_size >= 1
    /\ output_vec[1].diov_size < input_vec[1].diov_size
    /\ output_vec[3].diov_size >= 2

(***************************************************************************)
(* C10                                                                     *)
(***************************************************************************)
\* the last answer is a 200 that the size guard lets through
UnguardedWholeBody ==
    /\ served # <<>>
    /\ Last(served).code = 200
    /\ ~(/\ Last(served).answerSize > 1000000
         /\ Last(served).answerSize > 2 * RequestedBytes)

\* C10: a 200 is the last answer asked for.  If the guard lets it through,
\* the simulator works on all count_vec inputs, the outcome is
\* SUCCESS_BUT_NO_MULTIRANGE, no header value is processed after it and no
\* fallback is made; when preadVec returns, every output is what the
\* resource holds for its range and the total is the sum of all the output
\* sizes, each counted once.
C10_WholeBodyCoversAllInputs ==
    /\ \A k \in 1..Len(served) : served[k].code = 200 => k = Len(served)
    /\ UnguardedWholeBody
       => /\ opresult = "SUCCESS_BUT_NO_MULTIRANGE"
          /\ {cmap[k] : k \in 1..Len(cmap)} = 1..count_vec
          /\ it = Len(preads) + Len(served)
          /\ NoFallback
          /\ pc = "returned"
             => /\ \A i \in 1..count_vec : Complete(i)
                /\ result = SumSeq([i \in 1..count_vec |-> Len(Wanted(i))])
                /\ result = OutputSum

\* a first header value of one range was read alone, the next one was
\* answered by the whole body, and preadVec returned
C10_Witness ==
    /\ pc = "returned"
    /\ UnguardedWholeBody
    /\ Len(preads) = 1
    /\ output_vec[1].diov_size >= 1
    /\ result >= 3

(***************************************************************************)
(* C11                                                                     *)
(***************************************************************************)
\* the call is one that preadVec serves without the multirange path
SingleRangeOnly == count_vec = 1 \/ uri_multirange = "false"

\* C11: a multirange GET is sent only for N >= 2 without multirange=false.
\* With N = 0 preadVec returns 0 without any request; with N = 1 or
\* multirange=false it cannot fail, builds no header value, and returns
\* after exactly one pread per input, in index order, with the sum of what
\* they read.
C11_MultirangeOnlyWhenAsked ==
    /\ served # <<>> => (count_vec >= 2 /\ uri_multirange # "false")
    /\ (count_vec = 0 \/ SingleRangeOnly)
       => /\ pc \in {"preadVec", "returned"}
          /\ vecRanges = <<>>
          /\ served = <<>>
    /\ (pc = "returned" /\ count_vec = 0)
       => (result = 0 /\ preads = <<>>)
    /\ (pc = "returned" /\ count_vec >= 1 /\ SingleRangeOnly)
       => /\ preads = AllInputs
          /\ result = SumSeq([i \in 1..count_vec |-> Len(Wanted(i))])
          /\ \A i \in 1..count_vec : Complete(i)

\* three ranges were read one by one because of multirange=false
C11_Witness ==
    /\ pc = "returned"
    /\ uri_multirange = "false"
    /\ count_vec = 3
    /\ preads = <<1, 2, 3>>
    /\ result >= 3

(***************************************************************************)
(* C12                                                                     *)
(***************************************************************************)
\* the answer e is a 206 the parser cannot parse
Unparseable206(e) ==
    /\ e.code = 206
    /\ e.kind \in {"noctype", "noboundary", "emptyboundary", "raw", "nocolon",
                   "badrange", "noblank", "wrongboundary", "closeEarly"}

\* the answer e is a 200 that the size guard stops
GuardedWholeBody(e) ==
    /\ e.code = 200
    /\ e.answerSize > 1000000
    /\ e.answerSize > 2 * RequestedBytes

\* C12 (as claimed): ranges of at least one byte; whenever the outcome is
\* NOMULTIRANGE after an unparseable 206 or a size-guarded 200, the call
\* ends by returning, after single-range preads of every input, the sum of
\* these preads alone.
C12_NoMultirangeFallsBack ==
    (/\ pc \in {"returned", "thrown"}
     /\ NonEmptyRanges
     /\ opresult = "NOMULTIRANGE"
     /\ served # <<>>
     /\ Unparseable206(Last(served)) \/ GuardedWholeBody(Last(served)))
    => /\ pc = "returned"
       /\ FellBack
       /\ result = SumSeq([i \in 1..count_vec |-> Len(Wanted(i))])

(***************************************************************************)
(* C13                                                                     *)
(***************************************************************************)
\* answer k is a status other than 200 and 206
BadStatusServed(k) ==
    served[k].begin = 0 /\ served[k].code \notin {200, 206}

\* C13: once a GET was answered by a status other than 200 and 206, the
\* HTTP-code error is set and the value of performMultirange is -1; that GET
\* is the last one, no header value is processed after it, no single-range
\* fallback is made and preadVec does not return: the call ends with the
\* HTTP-code error.
C13_BadStatusIsFatal ==
    \A k \in 1..Len(served) :
        BadStatusServed(k)
        => /\ k = Len(served)
           /\ tmp_err = "httpcode"
           /\ ret = -1
           /\ Succeeded(opresult)
           /\ it = Len(preads) + Len(served)
           /\ NoFallback
           /\ pc \in {"finish", "thrown"}
           /\ pc = "thrown" => thrown = "httpcode"

\* a 404 came for the second header value, after a first one read alone, and
\* the call ended with the exception
C13_Witness ==
    /\ pc = "thrown"
    /\ thrown = "httpcode"
    /\ Len(served) = 1
    /\ served[1].code = 404
    /\ Len(preads) = 1
    /\ it = 2

(***************************************************************************)
(* C14                                                                     *)
(***************************************************************************)
\* preadVec returned a value that is not negative
NonFailingReturn == pc = "returned" /\ result >= 0

\* C14 (as claimed): ranges of at least one byte; after every non-failing
\* return with N >= 1, on every path, output i names the buffer of input i.
C14_BufferIdentity ==
    (NonFailingReturn /\ count_vec >= 1 /\ NonEmptyRanges)
    => \A i \in 1..count_vec : output_vec[i].diov_buffer = i

(***************************************************************************)
(* C15                                                                     *)
(***************************************************************************)
\* C15 (as claimed): ranges of at least one byte; after every non-failing
\* return, on every path, the size of output i is at most the size of
\* input i.
C15_SizeBound ==
    (NonFailingReturn /\ NonEmptyRanges)
    => \A i \in 1..count_vec : output_vec[i].diov_size <= input_vec[i].diov_size

(***************************************************************************)
(* C16                                                                     *)
(***************************************************************************)
\* the ranges lie inside the resource and no two of them share a byte
DisjointInside ==
    /\ \A i \in 1..count_vec :
          input_vec[i].diov_offset + input_vec[i].diov_size <= ResLen
    /\ \A i, j \in 1..count_vec :
          i < j => \/ input_vec[i].diov_offset + input_vec[i].diov_size
                         <= input_vec[j].diov_offset
                   \/ input_vec[j].diov_offset + input_vec[j].diov_size
                         <= input_vec[i].diov_offset

\* the answer e is one of: a conforming 206, a 200 (guarded or not), a 206
\* without multipart framing
ListedBehaviour(e) ==
    \/ Conforming(e)
    \/ e.begin = 0 /\ e.code = 200
    \/ e.code = 206 /\ e.kind \in {"noctype", "noboundary", "emptyboundary", "raw"}

\* what a single-range pread of input i alone leaves in fresh outputs
AloneRead(i) ==
    singleRangeRequest(input_vec,
                       [k \in 1..count_vec |-> [diov_buffer |-> NoBuffer, diov_size |-> 0]],
                       [k \in 1..count_vec |-> <<>>], i)

\* C16: for disjoint ranges inside the resource and a server that only
\* gives the listed answers, when preadVec returns every output entry and
\* the bytes it describes are those a single-range pread of that input
\* alone produces.
C16_SameAsSingleRanges ==
    (/\ pc = "returned"
     /\ DisjointInside
     /\ \A k \in 1..Len(served) : ListedBehaviour(served[k]))
    => \A i \in 1..count_vec :
          /\ output_vec[i] = AloneRead(i).out[i]
          /\ SubSeq(mem[i], 1, output_vec[i].diov_size) = AloneRead(i).mem[i]

\* three disjoint non-empty ranges were served by one conforming 206
C16_Witness ==
    /\ pc = "returned"
    /\ count_vec = 3
    /\ DisjointInside
    /\ NonEmptyRanges
    /\ Len(served) = 1
    /\ Conforming(served[1])
    /\ preads = <<>>

(***************************************************************************)
(* C17                                                                     *)
(***************************************************************************)
\* the stream of the request once the header of the next part is read
AfterHeader == parse_multi_part_header(req.stream, boundary, ChunkInfo, 0).stream

\* the parser is at an input of size 0 and this step accepts the header of
\* its part, with a byte of body behind it
ZeroSizeTurn ==
    /\ pc = "parse"
    /\ p_diff + off < count_vec
    /\ InputAt(off).diov_size = 0
    /\ Len(seen') = Len(seen) + 1
    /\ AfterHeader # <<>>
    /\ Head(AfterHeader).k = "byte"

\* C17: in the multipart path, at an input of size 0 the part's offset and
\* size are not compared with the input's, exactly one byte of the body is
\* read and dropped, the caller's buffer is left alone, the output entry is
\* given size 0 and the byte total does not change.
C17_ZeroSizeRangeSkipsOneByte ==
    [][ZeroSizeTurn =>
           /\ off' = off + 1
           /\ pc' = "parse"
           /\ tmp_err' = tmp_err
           /\ req'.stream = Tail(AfterHeader)
           /\ mem' = mem
           /\ output_vec' = [output_vec EXCEPT ![p_diff + off + 1] =
                                [diov_buffer |-> p_diff + off + 1,
                                 diov_size |-> 0]]
           /\ parse_ret' = parse_ret]_vars

\* the part of an input of size 0 was accepted although its header names a
\* byte, and the parser went on to the next input
C17_Witness ==
    \E k \in 1..Len(seen) :
       /\ input_vec[seen[k].idx].diov_size = 0
       /\ seen[k].size = 1
       /\ output_vec[seen[k].idx] = [diov_buffer |-> seen[k].idx, diov_size |-> 0]
       /\ mem[seen[k].idx] = <<>>
       /\ pc = "parse"
       /\ off >= seen[k].idx - p_diff
       /\ tmp_err = NoError

(***************************************************************************)
(* C18                                                                     *)
(***************************************************************************)
\* C18: a request is opened only while none is open; it is open only while
\* its answer is parsed or scattered, so it is closed when the loop goes
\* on, when performMultirange ends and when preadVec returns or throws; no
\* single-range pread is issued while a request is open.
C18_RequestClosedOnEveryPath ==
    [][/\ (pc' \notin {"parse", "parsed", "scatter"} => ~req'.open)
       /\ (served' # served => ~req.open)
       /\ (preads' # preads => ~req.open /\ ~req'.open)]_vars

\* a 206 answer was opened, its parsing failed, and preadVec returned after
\* the single-range preads of the fallback
C18_Witness ==
    /\ pc = "returned"
    /\ Len(served) = 1
    /\ served[1].begin = 0
    /\ served[1].code = 206
    /\ opresult = "NOMULTIRANGE"
    /\ preads = AllInputs
    /\ ~req.open

(***************************************************************************)
(* C19                                                                     *)
(***************************************************************************)
\* C19: the parsing of one part header ends whatever the server sends:
\* every activation that does not return has read one line and raised
\* n_try by one, n_try never passes MaxTry + 1, so there are at most
\* MaxTry + 1 reads (n_try from 0 to MaxTry), and the activation entered
\* with n_try above MaxTry fails with the "header too long" error.
C19_HeaderParsingEnds ==
    /\ n_try <= MaxTry + 1
    /\ Len(hlines) <= MaxTry + 1
    /\ pc = "header" => Len(hlines) = n_try
    /\ pc # "header" => pc = "headerDone" /\ Len(hlines) <= n_try + 1
    /\ pc = "headerDone" /\ n_try > MaxTry
          => header_ret = -1 /\ tmp_err = "toolong"

\* the limit was passed among the headers of a part: MaxTry + 1 lines were
\* read and the call failed as too long
C19_Witness ==
    /\ pc = "headerDone"
    /\ infos.bounded
    /\ n_try = MaxTry + 1
    /\ Len(hlines) = MaxTry + 1
    /\ header_ret = -1
    /\ tmp_err = "toolong"

(***************************************************************************)
(* C20                                                                     *)
(***************************************************************************)
RangeNames == {"Content-Range", "content-range", "CONTENT-RANGE"}

\* buffer is a Content-Range line of a range x-y with x <= y
IsRangeHeader(buffer) ==
    /\ Len(buffer) = 10
    /\ buffer[1].t \in RangeNames
    /\ buffer[6].t = "num" /\ buffer[8].t = "num"
    /\ 0 <= buffer[6].v /\ buffer[6].v <= buffer[8].v
    /\ buffer = ContentRangeLine(buffer[1].t, Num(buffer[6].v), Num(buffer[8].v))

\* buffer is a header line of another name
IsOtherHeader(buffer) ==
    /\ Len(buffer) >= 2
    /\ buffer[2] = Sym(":")
    /\ ToLower(buffer[1].t) \notin {ToLower(name) : name \in RangeNames}

\* the first m reads were: empty lines, the line --boundary, headers of
\* other names, a Content-Range line
ReadUpToRange(m) ==
    /\ m <= Len(hlines)
    /\ \E s \in 1..(m - 1) :
          /\ hlines[s].buffer = StartLine(Boundary)
          /\ \A k \in 1..(s - 1) : hlines[k].ret = 0
          /\ \A k \in (s + 1)..(m - 1) : IsOtherHeader(hlines[k].buffer)
          /\ IsRangeHeader(hlines[m].buffer)

\* the last read is the first that is not empty
FirstLineRead ==
    /\ hlines # <<>>
    /\ Last(hlines).ret > 0
    /\ \A j \in 1..(Len(hlines) - 1) : hlines[j].ret = 0

\* the last read is not empty and follows the Content-Range line
LineReadAfterRange ==
    /\ Len(hlines) >= 2
    /\ Last(hlines).ret > 0
    /\ ReadUpToRange(Len(hlines) - 1)

HeaderFailed ==
    /\ pc = "headerDone"
    /\ header_ret = -1
    /\ tmp_err # NoError

\* C20: the header parser returns 0 only when its reads were, in this
\* order, empty lines, the exact line --boundary, header lines of other
\* names, one valid Content-Range line x-y and an empty read, and then it
\* reports offset x and size y - x + 1; as soon as it reads a first
\* non-empty line that is not the boundary line, or a non-empty line after
\* the Content-Range line, the call ends with -1 and an error.
C20_HeaderGrammar ==
    /\ pc = "headerDone" /\ header_ret = 0
          => /\ Len(hlines) >= 3
             /\ ReadUpToRange(Len(hlines) - 1)
             /\ Last(hlines).ret = 0
             /\ infos.bounded
             /\ infos.offset = hlines[Len(hlines) - 1].buffer[6].v
             /\ infos.size = hlines[Len(hlines) - 1].buffer[8].v
                                - hlines[Len(hlines) - 1].buffer[6].v + 1
             /\ tmp_err = NoError
    /\ FirstLineRead /\ Last(hlines).buffer # StartLine(Boundary)
          => HeaderFailed
    /\ LineReadAfterRange => HeaderFailed

\* a header was accepted after an empty line, the boundary line, another
\* header, Content-Range: bytes 1-2 and the empty line
C20_Witness ==
    /\ pc = "headerDone"
    /\ header_ret = 0
    /\ Len(hlines) = 5
    /\ hlines[1].ret = 0
    /\ hlines[3].buffer = ContentTypeLine
    /\ infos = [offset |-> 1, size |-> 2, bounded |-> TRUE]
    /\ req.stream = <<>>

(***************************************************************************)
(* C21                                                                     *)
(***************************************************************************)
\* the Content-Type header is there and holds boundary= followed by a token
\* of 1 to MaxBoundaryLen bytes
HasBoundaryToken(ctype) ==
    /\ ctype.present
    /\ \E k \in 1..(Len(ctype.value) - 1) :
          /\ ctype.value[k] = Sym("boundary=")
          /\ ctype.value[k + 1].t \notin {"\"", ";"}
          /\ ctype.value[k + 1].v >= 1
          /\ ctype.value[k + 1].v <= MaxBoundaryLen

BoundaryToken(ctype) ==
    ctype.value[FindToken(ctype.value, "boundary=", 1) + 1]

\* C21 (as claimed): ranges of at least one byte; once a 206 answer with a
\* Content-Type header is taken, the boundary is the token
\* after boundary= when that token has 1 to 70 bytes; in every other case
\* the extraction fails, the parser returns -1 and an error is set.
C21_BoundaryOrError ==
    NonEmptyRanges /\ req.open /\ req.code = 206 /\ req.ctype.present
       => IF HasBoundaryToken(req.ctype)
          THEN boundary = <<BoundaryToken(req.ctype)>>
          ELSE pc = "parsed" /\ parse_ret = -1 /\ tmp_err # NoError

(***************************************************************************)
(* C22                                                                     *)
(***************************************************************************)
\* the number of inputs the header values before number k were built from
InputsBefore(k) == SumSeq([i \in 1..(k - 1) |-> vecRanges[i].first])

SingleValuesBefore(k) == {i \in 1..(k - 1) : vecRanges[i].first = 1}

\* C22 (as claimed): ranges of at least one byte; when the next header
\* value is taken the cursor p_diff counts the inputs of the header values
\* already processed, each header value of one range was read by one single-range
\* pread of the input it was built from, and only the other header values
\* were sent as a GET.
C22_CursorFollowsHeaderValues ==
    NonEmptyRanges /\ pc = "loop"
       => /\ it <= Len(vecRanges) => p_diff = InputsBefore(it)
          /\ Len(preads) = Cardinality(SingleValuesBefore(it))
          /\ Len(served) = (it - 1) - Cardinality(SingleValuesBefore(it))
          /\ it > 1 /\ vecRanges[it - 1].first = 1
                => Last(preads) = InputsBefore(it - 1) + 1

(***************************************************************************)
(* C23                                                                     *)
(***************************************************************************)
IsByteRangeLine(line) ==
    /\ Len(line) >= 2
    /\ line[2] = Sym(":")
    /\ ToLower(line[1].t) = "content-range"

NotDelimiter(tok) == tok.t \notin {" ", "bytes", "-", "/", "\t"}

\* what stands in the line after the colon, the delimiters left out
RangeNumbers(line) == SelectSeq(SubSeq(line, 3, Len(line)), NotDelimiter)

\* X and Y are decimal numbers that fit a long and X <= Y
GoodRange(line) ==
    /\ IsByteRangeLine(line)
    /\ Len(RangeNumbers(line)) >= 2
    /\ RangeNumbers(line)[1].t = "num"
    /\ RangeNumbers(line)[2].t = "num"
    /\ 0 <= RangeNumbers(line)[1].v
    /\ RangeNumbers(line)[1].v <= RangeNumbers(line)[2].v

OwedPair(i) ==
    [begin |-> input_vec[i].diov_offset,
     end |-> IF input_vec[i].diov_size >= 1
             THEN input_vec[i].diov_offset + input_vec[i].diov_size - 1
             ELSE input_vec[i].diov_offset]

\* C24: the k-th call of the provider, for k up to the number of inputs,
\* gives input k's pair (offset, offset + size - 1), or (offset, offset)
\* for a size of 0, and returns k; every later call returns -1 and leaves
\* the cursor where it is.
C24_ProviderWalksInputsOnce ==
    /\ counter = Min(Len(provided), count_vec)
    /\ \A k \in 1..Len(provided) :
          IF k <= count_vec
          THEN /\ provided[k].rc = k
               /\ provided[k].begin = OwedPair(k).begin
               /\ provided[k].end = OwedPair(k).end
          ELSE provided[k].rc = -1

\* two inputs, the first of size 0 at offset 0, were given and two more
\* calls found the provider exhausted
C24_Witness ==
    /\ count_vec = 2
    /\ input_vec[1] = [diov_offset |-> 0, diov_size |-> 0]
    /\ input_vec[2].diov_size = 2
    /\ Len(provided) = 4
    /\ provided[1] = [rc |-> 1, begin |-> 0, end |-> 0]
    /\ provided[4].rc = -1
    /\ counter = 2

\* ---------------------------------------------------------------------
\* C25: the streaming loop over the whole body
\* ---------------------------------------------------------------------

\* bytes_written of the entry at position k of the offset-ordered map
BytesWritten(out, k) == out[cmap[k]].diov_size

\* the window and the entries between two blocks of the streaming loop
WindowShape ==
    /\ 1 <= it_start /\ it_start <= it_end /\ it_end <= Len(cmap) + 1
    /\ \A k \in 1..Len(cmap) :
          /\ BytesWritten(output_vec, k) >= 0
          /\ BytesWritten(output_vec, k) <= input_vec[cmap[k]].diov_size
          /\ k < it_start
                => BytesWritten(output_vec, k) = input_vec[cmap[k]].diov_size
          /\ k >= it_end => BytesWritten(output_vec, k) = 0

\* one block of the streaming loop: the cursors and the entries go forward
\* only, start stays behind end even before end is advanced, and a
\* finished entry is left alone
BlockGoesForward ==
    /\ it_start' >= it_start
    /\ it_start' <= it_end
    /\ it_end' >= it_end
    /\ \A k \in 1..Len(cmap) :
          /\ BytesWritten(output_vec', k) >= BytesWritten(output_vec, k)
          /\ k < it_start => /\ output_vec'[cmap[k]] = output_vec[cmap[k]]
                              /\ mem'[cmap[k]] = mem[cmap[k]]

\* one block of the streaming loop: the bytes an entry gained were read at
\* read_offset = offset + bytes_written - pos, inside the block
CopiesInsideBlock ==
    \A k \in 1..Len(cmap) :
       LET copyLen == BytesWritten(output_vec', k) - BytesWritten(output_vec, k)
           readOffsetInBlock == input_vec[cmap[k]].diov_offset
                                   + BytesWritten(output_vec, k) - total_read_size
           len == total_read_size' - total_read_size
       IN copyLen > 0 => /\ 0 <= readOffsetInBlock
                         /\ readOffsetInBlock + copyLen <= len

\* C25: throughout the streaming loop over the whole body, both window
\* cursors only move forward and start never passes end; the bytes written
\* of an entry never decrease and never exceed its size; every entry
\* before start is complete and no longer changes, every entry at or after
\* end has 0 bytes written; and every copy reads inside the current block:
\* 0 <= readOffsetInBlock and readOffsetInBlock + copyLen <= len whenever
\* copyLen > 0.
C25_StreamingWindow ==
    [][/\ pc' = "scatter" => WindowShape'
       /\ pc = "scatter" /\ pc' = "scatter"
             => BlockGoesForward /\ CopiesInsideBlock]_vars

\* three blocks were read; the first entry of the map is behind the window
\* and complete, the second is inside it and partly written, the third is
\* beyond it and untouched
C25_Witness ==
    /\ pc = "scatter"
    /\ Len(cmap) = 3
    /\ total_read_size > MaxBlock
    /\ it_start = 2 /\ it_end = 3
    /\ BytesWritten(output_vec, 1) = input_vec[cmap[1]].diov_size
    /\ BytesWritten(output_vec, 1) > 0
    /\ BytesWritten(output_vec, 2) > 0
    /\ BytesWritten(output_vec, 2) < input_vec[cmap[2]].diov_size
    /\ BytesWritten(output_vec, 3) = 0
    /\ input_vec[cmap[3]].diov_size > 0

====
